---------------------------- MODULE Spec2Model ----------------------------
(***************************************************************************)
(* The Font datatype of lib-roblox (datatypes/types/font.rs): the          *)
(* FontWeight and FontStyle enumerations with their numeric and textual    *)
(* codecs, the FONT_ENUM_MAP catalog of legacy fonts and its resolution,   *)
(* the Lua-facing getters and setters of a Font userdata, and the          *)
(* conversions between Font and rbx_dom_weak's Font.                       *)
(*                                                                         *)
(* Enum variants are written "FontWeight::Bold"; their display names are   *)
(* written "Bold".  Option<T> is modelled by None / Some(x), Result by     *)
(* Ok(x) / Err(e), a call that may panic by Returned(x) / Panic(msg).                   *)
(***************************************************************************)
EXTENDS Integers, Sequences, FiniteSets, TLC

\* ---------------------------------------------------------------- bounds
\* numeric inputs tried on from_u16 are the multiples of 50 up to 50 * MaxWeightStep
MaxWeightStep == 20
\* numeric inputs tried on from_u8 are 0 .. MaxStyleCode
MaxStyleCode == 3

\* ------------------------------------------------ Option, Result, panics
None == [some |-> FALSE]
Some(x) == [some |-> TRUE, val |-> x]
Ok(x) == [ok |-> TRUE, val |-> x]
Err(e) == [ok |-> FALSE, err |-> e]
\* a call either returns a value or unwinds with a panic message
Returned(x) == [panic |-> FALSE, val |-> x]
Panic(msg) == [panic |-> TRUE, msg |-> msg]

\* ------------------------------------------------------------ FontWeight
FontWeight ==
    { "FontWeight::Thin", "FontWeight::ExtraLight", "FontWeight::Light",
      "FontWeight::Regular", "FontWeight::Medium", "FontWeight::SemiBold",
      "FontWeight::Bold", "FontWeight::ExtraBold", "FontWeight::Heavy" }

\* as_u16 with the code of Medium repeated for SemiBold
FontWeight_as_u16_repeated(w) ==
    CASE w = "FontWeight::Thin"       -> 100
      [] w = "FontWeight::ExtraLight" -> 200
      [] w = "FontWeight::Light"      -> 300
      [] w = "FontWeight::Regular"    -> 400
      [] w = "FontWeight::Medium"     -> 500
      [] w = "FontWeight::SemiBold"   -> 500
      [] w = "FontWeight::Bold"       -> 700
      [] w = "FontWeight::ExtraBold"  -> 800
      [] w = "FontWeight::Heavy"      -> 900

FontWeight_as_u16(w) ==
    CASE w = "FontWeight::Thin"       -> 100
      [] w = "FontWeight::ExtraLight" -> 200
      [] w = "FontWeight::Light"      -> 300
      [] w = "FontWeight::Regular"    -> 400
      [] w = "FontWeight::Medium"     -> 500
      [] w = "FontWeight::SemiBold"   -> 600
      [] w = "FontWeight::Bold"       -> 700
      [] w = "FontWeight::ExtraBold"  -> 800
      [] w = "FontWeight::Heavy"      -> 900

FontWeight_from_u16(n) ==
    CASE n = 100 -> Some("FontWeight::Thin")
      [] n = 200 -> Some("FontWeight::ExtraLight")
      [] n = 300 -> Some("FontWeight::Light")
      [] n = 400 -> Some("FontWeight::Regular")
      [] n = 500 -> Some("FontWeight::Medium")
      [] n = 600 -> Some("FontWeight::SemiBold")
      [] n = 700 -> Some("FontWeight::Bold")
      [] n = 800 -> Some("FontWeight::ExtraBold")
      [] n = 900 -> Some("FontWeight::Heavy")
      [] OTHER   -> None

\* from_str that spells one name as the catalog does ("Semibold")
FontWeight_from_str_spelling(s) ==
    CASE s = "Thin"       -> Ok("FontWeight::Thin")
      [] s = "ExtraLight" -> Ok("FontWeight::ExtraLight")
      [] s = "Light"      -> Ok("FontWeight::Light")
      [] s = "Regular"    -> Ok("FontWeight::Regular")
      [] s = "Medium"     -> Ok("FontWeight::Medium")
      [] s = "Semibold"   -> Ok("FontWeight::SemiBold")
      [] s = "Bold"       -> Ok("FontWeight::Bold")
      [] s = "ExtraBold"  -> Ok("FontWeight::ExtraBold")
      [] s = "Heavy"      -> Ok("FontWeight::Heavy")
      [] OTHER            -> Err("Unknown FontWeight")

FontWeight_from_str(s) ==
    CASE s = "Thin"       -> Ok("FontWeight::Thin")
      [] s = "ExtraLight" -> Ok("FontWeight::ExtraLight")
      [] s = "Light"      -> Ok("FontWeight::Light")
      [] s = "Regular"    -> Ok("FontWeight::Regular")
      [] s = "Medium"     -> Ok("FontWeight::Medium")
      [] s = "SemiBold"   -> Ok("FontWeight::SemiBold")
      [] s = "Bold"       -> Ok("FontWeight::Bold")
      [] s = "ExtraBold"  -> Ok("FontWeight::ExtraBold")
      [] s = "Heavy"      -> Ok("FontWeight::Heavy")
      [] OTHER            -> Err("Unknown FontWeight")

FontWeight_to_string(w) ==
    CASE w = "FontWeight::Thin"       -> "Thin"
      [] w = "FontWeight::ExtraLight" -> "ExtraLight"
      [] w = "FontWeight::Light"      -> "Light"
      [] w = "FontWeight::Regular"    -> "Regular"
      [] w = "FontWeight::Medium"     -> "Medium"
      [] w = "FontWeight::SemiBold"   -> "SemiBold"
      [] w = "FontWeight::Bold"       -> "Bold"
      [] w = "FontWeight::ExtraBold"  -> "ExtraBold"
      [] w = "FontWeight::Heavy"      -> "Heavy"

\* ------------------------------------------------------------- FontStyle
FontStyle == { "FontStyle::Normal", "FontStyle::Italic" }

FontStyle_as_u8(s) ==
    CASE s = "FontStyle::Normal" -> 0
      [] s = "FontStyle::Italic" -> 1

\* from_u8 that takes every non-zero code for Italic
FontStyle_from_u8_nonzero(n) ==
    CASE n = 0 -> Some("FontStyle::Normal")
      [] OTHER -> Some("FontStyle::Italic")

FontStyle_from_u8(n) ==
    CASE n = 0 -> Some("FontStyle::Normal")
      [] n = 1 -> Some("FontStyle::Italic")
      [] OTHER -> None

FontStyle_from_str(s) ==
    CASE s = "Normal" -> Ok("FontStyle::Normal")
      [] s = "Italic" -> Ok("FontStyle::Italic")
      [] OTHER        -> Err("Unknown FontStyle")

FontStyle_to_string(s) ==
    CASE s = "FontStyle::Normal" -> "Normal"
      [] s = "FontStyle::Italic" -> "Italic"

\* --------------------------------------------------------- FONT_ENUM_MAP
\* (name, Option<(family, weight, style)>), in source order: the array literal
FONT_ENUM_ROWS == <<
    <<"Legacy",             Some(<<"rbxasset://fonts/families/LegacyArial.json",     "FontWeight::Regular",  "FontStyle::Normal">>)>>,
    <<"Arial",              Some(<<"rbxasset://fonts/families/Arial.json",           "FontWeight::Regular",  "FontStyle::Normal">>)>>,
    <<"ArialBold",          Some(<<"rbxasset://fonts/families/Arial.json",           "FontWeight::Bold",     "FontStyle::Normal">>)>>,
    <<"SourceSans",         Some(<<"rbxasset://fonts/families/SourceSansPro.json",   "FontWeight::Regular",  "FontStyle::Normal">>)>>,
    <<"SourceSansBold",     Some(<<"rbxasset://fonts/families/SourceSansPro.json",   "FontWeight::Bold",     "FontStyle::Normal">>)>>,
    <<"SourceSansSemibold", Some(<<"rbxasset://fonts/families/SourceSansPro.json",   "FontWeight::SemiBold", "FontStyle::Normal">>)>>,
    <<"SourceSansLight",    Some(<<"rbxasset://fonts/families/SourceSansPro.json",   "FontWeight::Light",    "FontStyle::Normal">>)>>,
    <<"SourceSansItalic",   Some(<<"rbxasset://fonts/families/SourceSansPro.json",   "FontWeight::Regular",  "FontStyle::Italic">>)>>,
    <<"Bodoni",             Some(<<"rbxasset://fonts/families/AccanthisADFStd.json", "FontWeight::Regular",  "FontStyle::Normal">>)>>,
    <<"Garamond",           Some(<<"rbxasset://fonts/families/Guru.json",            "FontWeight::Regular",  "FontStyle::Normal">>)>>,
    <<"Cartoon",            Some(<<"rbxasset://fonts/families/ComicNeueAngular.json", "FontWeight::Regular",  "FontStyle::Normal">>)>>,
    <<"Code",               Some(<<"rbxasset://fonts/families/Inconsolata.json",     "FontWeight::Regular",  "FontStyle::Normal">>)>>,
    <<"Highway",            Some(<<"rbxasset://fonts/families/HighwayGothic.json",   "FontWeight::Regular",  "FontStyle::Normal">>)>>,
    <<"SciFi",              Some(<<"rbxasset://fonts/families/Zekton.json",          "FontWeight::Regular",  "FontStyle::Normal">>)>>,
    <<"Arcade",             Some(<<"rbxasset://fonts/families/PressStart2P.json",    "FontWeight::Regular",  "FontStyle::Normal">>)>>,
    <<"Fantasy",            Some(<<"rbxasset://fonts/families/Balthazar.json",       "FontWeight::Regular",  "FontStyle::Normal">>)>>,
    <<"Antique",            Some(<<"rbxasset://fonts/families/RomanAntique.json",    "FontWeight::Regular",  "FontStyle::Normal">>)>>,
    <<"Gotham",             Some(<<"rbxasset://fonts/families/GothamSSm.json",       "FontWeight::Regular",  "FontStyle::Normal">>)>>,
    <<"GothamMedium",       Some(<<"rbxasset://fonts/families/GothamSSm.json",       "FontWeight::Medium",   "FontStyle::Normal">>)>>,
    <<"GothamBold",         Some(<<"rbxasset://fonts/families/GothamSSm.json",       "FontWeight::Bold",     "FontStyle::Normal">>)>>,
    <<"GothamBlack",        Some(<<"rbxasset://fonts/families/GothamSSm.json",       "FontWeight::Heavy",    "FontStyle::Normal">>)>>,
    <<"AmaticSC",           Some(<<"rbxasset://fonts/families/AmaticSC.json",        "FontWeight::Regular",  "FontStyle::Normal">>)>>,
    <<"Bangers",            Some(<<"rbxasset://fonts/families/Bangers.json",         "FontWeight::Regular",  "FontStyle::Normal">>)>>,
    <<"Creepster",          Some(<<"rbxasset://fonts/families/Creepster.json",       "FontWeight::Regular",  "FontStyle::Normal">>)>>,
    <<"DenkOne",            Some(<<"rbxasset://fonts/families/DenkOne.json",         "FontWeight::Regular",  "FontStyle::Normal">>)>>,
    <<"Fondamento",         Some(<<"rbxasset://fonts/families/Fondamento.json",      "FontWeight::Regular",  "FontStyle::Normal">>)>>,
    <<"FredokaOne",         Some(<<"rbxasset://fonts/families/FredokaOne.json",      "FontWeight::Regular",  "FontStyle::Normal">>)>>,
    <<"GrenzeGotisch",      Some(<<"rbxasset://fonts/families/GrenzeGotisch.json",   "FontWeight::Regular",  "FontStyle::Normal">>)>>,
    <<"IndieFlower",        Some(<<"rbxasset://fonts/families/IndieFlower.json",     "FontWeight::Regular",  "FontStyle::Normal">>)>>,
    <<"JosefinSans",        Some(<<"rbxasset://fonts/families/JosefinSans.json",     "FontWeight::Regular",  "FontStyle::Normal">>)>>,
    <<"Jura",               Some(<<"rbxasset://fonts/families/Jura.json",            "FontWeight::Regular",  "FontStyle::Normal">>)>>,
    <<"Kalam",              Some(<<"rbxasset://fonts/families/Kalam.json",           "FontWeight::Regular",  "FontStyle::Normal">>)>>,
    <<"LuckiestGuy",        Some(<<"rbxasset://fonts/families/LuckiestGuy.json",     "FontWeight::Regular",  "FontStyle::Normal">>)>>,
    <<"Merriweather",       Some(<<"rbxasset://fonts/families/Merriweather.json",    "FontWeight::Regular",  "FontStyle::Normal">>)>>,
    <<"Michroma",           Some(<<"rbxasset://fonts/families/Michroma.json",        "FontWeight::Regular",  "FontStyle::Normal">>)>>,
    <<"Nunito",             Some(<<"rbxasset://fonts/families/Nunito.json",          "FontWeight::Regular",  "FontStyle::Normal">>)>>,
    <<"Oswald",             Some(<<"rbxasset://fonts/families/Oswald.json",          "FontWeight::Regular",  "FontStyle::Normal">>)>>,
    <<"PatrickHand",        Some(<<"rbxasset://fonts/families/PatrickHand.json",     "FontWeight::Regular",  "FontStyle::Normal">>)>>,
    <<"PermanentMarker",    Some(<<"rbxasset://fonts/families/PermanentMarker.json", "FontWeight::Regular",  "FontStyle::Normal">>)>>,
    <<"Roboto",             Some(<<"rbxasset://fonts/families/Roboto.json",          "FontWeight::Regular",  "FontStyle::Normal">>)>>,
    <<"RobotoCondensed",    Some(<<"rbxasset://fonts/families/RobotoCondensed.json", "FontWeight::Regular",  "FontStyle::Normal">>)>>,
    <<"RobotoMono",         Some(<<"rbxasset://fonts/families/RobotoMono.json",      "FontWeight::Regular",  "FontStyle::Normal">>)>>,
    <<"Sarpanch",           Some(<<"rbxasset://fonts/families/Sarpanch.json",        "FontWeight::Regular",  "FontStyle::Normal">>)>>,
    <<"SpecialElite",       Some(<<"rbxasset://fonts/families/SpecialElite.json",    "FontWeight::Regular",  "FontStyle::Normal">>)>>,
    <<"TitilliumWeb",       Some(<<"rbxasset://fonts/families/TitilliumWeb.json",    "FontWeight::Regular",  "FontStyle::Normal">>)>>,
    <<"Ubuntu",             Some(<<"rbxasset://fonts/families/Ubuntu.json",          "FontWeight::Regular",  "FontStyle::Normal">>)>>,
    <<"Unknown",            None>>
>>

\* a catalog in which the last row repeats an earlier name
FONT_ENUM_MAP_duplicate ==
    [FONT_ENUM_ROWS EXCEPT ![Len(FONT_ENUM_ROWS)] =
        <<"Arial", Some(<<"rbxasset://fonts/families/Ubuntu.json",
                          "FontWeight::Regular", "FontStyle::Normal">>)>>]

\* a catalog that lost its first row
FONT_ENUM_MAP_short == Tail(FONT_ENUM_ROWS)

\* const FONT_ENUM_MAP: &[(&str, Option<FontData>)], the slice of that array
FONT_ENUM_MAP == FONT_ENUM_ROWS

\* ------------------------------------------------------------------ Font
\* struct Font { family, weight, style }
Font(family, weight, style) ==
    [family |-> family, weight |-> weight, style |-> style]

\* EnumItem as far as this file reads it: value.parent.desc.name, value.name
EnumItem(parent, name) == [parent |-> parent, name |-> name]

\* .iter().find(pred): index of the first entry at or after i that has the
\* requested name and a present mapping, 0 when the scan runs off the end
RECURSIVE find(_, _)
find(name, i) ==
    IF i > Len(FONT_ENUM_MAP) THEN 0
    ELSE IF FONT_ENUM_MAP[i][1] = name /\ FONT_ENUM_MAP[i][2].some THEN i
    ELSE find(name, i + 1)

\* from_enum that takes the entry's name (the outer .0) for the family
Font_from_enum_outer_name(material_enum_item) ==
    LET i == find(material_enum_item.name, 1) IN
    IF i = 0 THEN None
    ELSE LET props == FONT_ENUM_MAP[i][2].val IN
         Some(Font(FONT_ENUM_MAP[i][1], props[2], props[3]))

\* from_enum that falls back to a default Font when nothing is found
Font_from_enum_or_default(material_enum_item) ==
    LET i == find(material_enum_item.name, 1) IN
    IF i = 0
    THEN Some(Font("rbxasset://fonts/families/LegacyArial.json",
                   "FontWeight::Regular", "FontStyle::Normal"))
    ELSE LET props == FONT_ENUM_MAP[i][2].val IN
         Some(Font(props[1], props[2], props[3]))

\* Font::from_enum
Font_from_enum(material_enum_item) ==
    LET i == find(material_enum_item.name, 1) IN
    IF i = 0 THEN None
    ELSE LET props == FONT_ENUM_MAP[i][2].val IN
         Some(Font(props[1], props[2], props[3]))

\* ------------------------------------------- rbx_dom_weak's Font types
\* An RbxFontWeight / RbxFontStyle is known to this file only through the
\* code its as_u16 / as_u8 returns and through from_u16 / from_u8.
RbxFontWeight(n) == [rbx_weight |-> n]
RbxFontStyle(n) == [rbx_style |-> n]
RbxFontWeight_as_u16(v) == v.rbx_weight
RbxFontStyle_as_u8(v) == v.rbx_style
RbxFontWeight_from_u16(n) ==
    IF n \in {100, 200, 300, 400, 500, 600, 700, 800, 900}
    THEN Some(RbxFontWeight(n)) ELSE None
RbxFontStyle_from_u8(n) ==
    IF n \in {0, 1} THEN Some(RbxFontStyle(n)) ELSE None
RbxFont(family, weight, style, cached_face_id) ==
    [family |-> family, weight |-> weight, style |-> style,
     cached_face_id |-> cached_face_id]

\* Option::expect
expect(opt, msg) == IF opt.some THEN Returned(opt.val) ELSE Panic(msg)

\* conversion that falls back to Regular instead of panicking
FontWeight_from_RbxFontWeight_or_regular(v) ==
    LET r == FontWeight_from_u16(RbxFontWeight_as_u16(v)) IN
    IF r.some THEN Returned(r.val) ELSE Returned("FontWeight::Regular")

\* impl From<RbxFontWeight> for FontWeight
FontWeight_from_RbxFontWeight(v) ==
    expect(FontWeight_from_u16(RbxFontWeight_as_u16(v)), "Missing font weight")

\* impl From<FontWeight> for RbxFontWeight
RbxFontWeight_from_FontWeight(v) ==
    expect(RbxFontWeight_from_u16(FontWeight_as_u16(v)), "Missing rbx font weight")

\* impl From<RbxFontStyle> for FontStyle
FontStyle_from_RbxFontStyle(v) ==
    expect(FontStyle_from_u8(RbxFontStyle_as_u8(v)), "Missing font weight")

\* impl From<FontStyle> for RbxFontStyle
RbxFontStyle_from_FontStyle(v) ==
    expect(RbxFontStyle_from_u8(FontStyle_as_u8(v)), "Missing rbx font weight")

\* impl From<RbxFont> for Font: the fields are evaluated in order, and a
\* panic in one of them unwinds out of the conversion
Font_from_RbxFont(v) ==
    LET weight == FontWeight_from_RbxFontWeight(v.weight)
        style  == FontStyle_from_RbxFontStyle(v.style)
    IN  IF weight.panic THEN weight
        ELSE IF style.panic THEN style
        ELSE Returned(Font(v.family, weight.val, style.val))

\* impl From<Font> for RbxFont
RbxFont_from_Font(v) ==
    LET weight == RbxFontWeight_from_FontWeight(v.weight)
        style  == RbxFontStyle_from_FontStyle(v.style)
    IN  IF weight.panic THEN weight
        ELSE IF style.panic THEN style
        ELSE Returned(RbxFont(v.family, weight.val, style.val, None))

\* ------------------------------------------------- Lua fields of a Font
\* Bold getter that compares with > instead of >=
Font_get_Bold_above(this) == FontWeight_as_u16(this.weight) > 600

\* "Bold" getter
Font_get_Bold(this) == FontWeight_as_u16(this.weight) >= 600

\* "Weight" getter: EnumItem::from_enum_name_and_name("FontWeight", ..)
Font_get_Weight(this) == EnumItem("FontWeight", FontWeight_to_string(this.weight))

\* "Style" getter
Font_get_Style(this) == EnumItem("FontStyle", FontStyle_to_string(this.style))

\* "Family" getter
Font_get_Family(this) == this.family

\* Weight setter that parses the name without looking at the parent enum
Font_set_Weight_any_parent(this, value) ==
    LET r == FontWeight_from_str(value.name) IN
    IF r.ok
    THEN <<Ok("()"), [this EXCEPT !.weight = r.val]>>
    ELSE <<Err([msg |-> "Failed to set value to FontWeight",
                name |-> value.name, e |-> r.err]), this>>

\* "Weight" setter: <<result, this afterwards>>
Font_set_Weight(this, value) ==
    IF value.parent = "FontWeight"
    THEN LET r == FontWeight_from_str(value.name) IN
         IF r.ok
         THEN <<Ok("()"), [this EXCEPT !.weight = r.val]>>
         ELSE <<Err([msg |-> "Failed to set value to FontWeight",
                     name |-> value.name, e |-> r.err]), this>>
    ELSE <<Err([msg |-> "Expected value to be a FontWeight, got",
                got |-> value.parent]), this>>

\* "Style" setter: <<result, this afterwards>>
Font_set_Style(this, value) ==
    IF value.parent = "FontStyle"
    THEN LET r == FontStyle_from_str(value.name) IN
         IF r.ok
         THEN <<Ok("()"), [this EXCEPT !.style = r.val]>>
         ELSE <<Err([msg |-> "Failed to set value to FontStyle",
                     name |-> value.name, e |-> r.err]), this>>
    ELSE <<Err([msg |-> "Expected value to be a FontStyle, got",
                got |-> value.parent]), this>>

\* Bold setter that builds the Font anew, with the default style
Font_set_Bold_rebuilt(this, value) ==
    IF value
    THEN <<Ok("()"), Font(this.family, "FontWeight::Bold", "FontStyle::Normal")>>
    ELSE <<Ok("()"), Font(this.family, "FontWeight::Regular", "FontStyle::Normal")>>

\* "Bold" setter: <<result, this afterwards>>
Font_set_Bold(this, value) ==
    IF value
    THEN <<Ok("()"), [this EXCEPT !.weight = "FontWeight::Bold"]>>
    ELSE <<Ok("()"), [this EXCEPT !.weight = "FontWeight::Regular"]>>

\* Font.fromEnum of the datatype table
Font_fromEnum(value) ==
    IF value.parent = "Font"
    THEN LET r == Font_from_enum(value) IN
         IF r.some THEN Ok(r.val)
         ELSE Err([msg |-> "Found unknown Font", name |-> value.name])
    ELSE Err([msg |-> "Expected argument #1 to be a Font, got",
              got |-> value.parent])

\* ---------------------------------------------------------------- inputs
WeightNames ==
    { "Thin", "ExtraLight", "Light", "Regular", "Medium", "SemiBold",
      "Bold", "ExtraBold", "Heavy" }
StyleNames == { "Normal", "Italic" }
CatalogNames == { FONT_ENUM_MAP[i][1] : i \in 1..Len(FONT_ENUM_MAP) }

\* u16 arguments tried on FontWeight::from_u16
U16Inputs == { 50 * k : k \in 0..MaxWeightStep } \cup { 1, 401, 699, 65535 }
\* u8 arguments tried on FontStyle::from_u8
U8Inputs == (0..MaxStyleCode) \cup { 100, 255 }
\* &str arguments tried on the two from_str
StrInputs ==
    WeightNames \cup StyleNames \cup { "", "bold", "thin", "normal", "NotAFont" }
\* EnumItems handed to Font.fromEnum from Lua
LuaFontItemInputs ==
    { EnumItem("Font", n) :
        n \in { "Legacy", "Arial", "ArialBold", "SourceSansSemibold",
                "SourceSansLight", "SourceSansItalic", "GothamMedium",
                "GothamBlack", "Ubuntu", "Unknown", "NotAFont", "arial" } }
      \cup { EnumItem("FontWeight", "Bold"), EnumItem("Material", "Arial") }
\* EnumItems handed to Font::from_enum: every name of the catalog and more
FontItemInputs ==
    { EnumItem("Font", n) : n \in CatalogNames \cup { "NotAFont", "arial", "Bold" } }
      \cup { EnumItem("FontWeight", "Bold"), EnumItem("Material", "Arial"),
             EnumItem("Material", "Unknown") }
\* EnumItems assigned to the Weight and Style fields
SetterItemInputs ==
    { EnumItem(p, n) : p \in { "FontWeight", "FontStyle" },
                       n \in WeightNames \cup StyleNames \cup { "bold" } }
      \cup { EnumItem("Font", "Arial") }
\* RbxFonts read from a document
RbxFontInputs ==
    { RbxFont(f, RbxFontWeight(w), RbxFontStyle(s), c) :
        f \in { "Test", "" },
        w \in { 0, 100, 150, 200, 300, 400, 500, 600, 700, 800, 900, 1000 },
        s \in 0..2,
        c \in { None, Some("face") } }

\* ----------------------------------------------------------------- state
VARIABLES
    font,   \* the Font userdata under consideration
    last    \* the last call made: [op, arg, res], and for a field access of
            \* the userdata also this, the Font as it was when the call began
VARIABLES
    family0,    \* history: the family the Font was constructed with
    style0      \* history: the style of the last successful Style set, or
                \* the constructed style when there was none

vars == <<font, last, family0, style0>>

Call(op, arg, res) == [op |-> op, arg |-> arg, res |-> res]
FieldCall(op, this, arg, res) == [op |-> op, this |-> this, arg |-> arg, res |-> res]

\* A Font userdata comes into being through Font.fromEnum
Init ==
    \E value \in LuaFontItemInputs :
        /\ Font_fromEnum(value).ok
        /\ font = Font_fromEnum(value).val
        /\ last = Call("Font.fromEnum", value, Font_fromEnum(value))
        /\ family0 = Font_fromEnum(value).val.family
        /\ style0 = Font_fromEnum(value).val.style

\* ------------------------------------------------------------- the calls
From_enum(item) ==
    LET r == Font_from_enum(item) IN
    /\ last' = Call("Font::from_enum", item, r)
    /\ UNCHANGED <<font, family0, style0>>

FromEnum(value) ==
    LET r == Font_fromEnum(value) IN
    /\ font' = IF r.ok THEN r.val ELSE font
    /\ last' = Call("Font.fromEnum", value, r)
    /\ family0' = IF r.ok THEN r.val.family ELSE family0
    /\ style0' = IF r.ok THEN r.val.style ELSE style0

GetFamily ==
    /\ last' = FieldCall("get Family", font, "()", Font_get_Family(font))
    /\ UNCHANGED <<font, family0, style0>>

GetWeight ==
    /\ last' = FieldCall("get Weight", font, "()", Font_get_Weight(font))
    /\ UNCHANGED <<font, family0, style0>>

GetStyle ==
    /\ last' = FieldCall("get Style", font, "()", Font_get_Style(font))
    /\ UNCHANGED <<font, family0, style0>>

GetBold ==
    /\ last' = FieldCall("get Bold", font, "()", Font_get_Bold(font))
    /\ UNCHANGED <<font, family0, style0>>

SetWeight(value) ==
    LET r == Font_set_Weight(font, value) IN
    /\ font' = r[2]
    /\ last' = FieldCall("set Weight", font, value, r[1])
    /\ UNCHANGED <<family0, style0>>

SetStyle(value) ==
    LET r == Font_set_Style(font, value) IN
    /\ font' = r[2]
    /\ last' = FieldCall("set Style", font, value, r[1])
    /\ style0' = IF r[1].ok
                 THEN CHOOSE s \in FontStyle : FontStyle_to_string(s) = value.name
                 ELSE style0
    /\ UNCHANGED family0

SetBold(value) ==
    LET r == Font_set_Bold(font, value) IN
    /\ font' = r[2]
    /\ last' = FieldCall("set Bold", font, value, r[1])
    /\ UNCHANGED <<family0, style0>>

\* Font -> RbxFont
IntoRbxFont ==
    /\ last' = Call("RbxFont::from", font, RbxFont_from_Font(font))
    /\ UNCHANGED <<font, family0, style0>>

\* RbxFont -> Font; a panic produces no Font
FromRbxFont(v) ==
    LET r == Font_from_RbxFont(v) IN
    /\ font' = IF r.panic THEN font ELSE r.val
    /\ last' = Call("Font::from", v, r)
    /\ family0' = IF r.panic THEN family0 ELSE r.val.family
    /\ style0' = IF r.panic THEN style0 ELSE r.val.style

WeightAsU16(w) ==
    /\ last' = Call("FontWeight::as_u16", w, FontWeight_as_u16(w))
    /\ UNCHANGED <<font, family0, style0>>

WeightFromU16(n) ==
    /\ last' = Call("FontWeight::from_u16", n, FontWeight_from_u16(n))
    /\ UNCHANGED <<font, family0, style0>>

WeightFromStr(s) ==
    /\ last' = Call("FontWeight::from_str", s, FontWeight_from_str(s))
    /\ UNCHANGED <<font, family0, style0>>

WeightToString(w) ==
    /\ last' = Call("FontWeight::to_string", w, FontWeight_to_string(w))
    /\ UNCHANGED <<font, family0, style0>>

StyleAsU8(s) ==
    /\ last' = Call("FontStyle::as_u8", s, FontStyle_as_u8(s))
    /\ UNCHANGED <<font, family0, style0>>

StyleFromU8(n) ==
    /\ last' = Call("FontStyle::from_u8", n, FontStyle_from_u8(n))
    /\ UNCHANGED <<font, family0, style0>>

StyleFromStr(s) ==
    /\ last' = Call("FontStyle::from_str", s, FontStyle_from_str(s))
    /\ UNCHANGED <<font, family0, style0>>

StyleToString(s) ==
    /\ last' = Call("FontStyle::to_string", s, FontStyle_to_string(s))
    /\ UNCHANGED <<font, family0, style0>>

\* the calls that make, read and change a Font
Next ==
    \/ \E value \in LuaFontItemInputs : FromEnum(value)
    \/ GetFamily
    \/ GetWeight
    \/ GetStyle
    \/ GetBold
    \/ \E value \in SetterItemInputs : SetWeight(value)
    \/ \E value \in SetterItemInputs : SetStyle(value)
    \/ \E value \in BOOLEAN : SetBold(value)
    \/ IntoRbxFont
    \/ \E v \in RbxFontInputs : FromRbxFont(v)

Spec == Init /\ [][Next]_vars

\* the functions of the enumerations and of the catalog, applied to their inputs
NextFn ==
    \/ \E item \in FontItemInputs : From_enum(item)
    \/ \E w \in FontWeight : WeightAsU16(w)
    \/ \E n \in U16Inputs : WeightFromU16(n)
    \/ \E s \in StrInputs : WeightFromStr(s)
    \/ \E w \in FontWeight : WeightToString(w)
    \/ \E s \in FontStyle : StyleAsU8(s)
    \/ \E n \in U8Inputs : StyleFromU8(n)
    \/ \E s \in StrInputs : StyleFromStr(s)
    \/ \E s \in FontStyle : StyleToString(s)

SpecFn == Init /\ [][NextFn]_vars

\* ---------------------------------------------------------------- claims
WeightCodes == { 100, 200, 300, 400, 500, 600, 700, 800, 900 }
StyleCodes == { 0, 1 }
MappedRows == { i \in 1..Len(FONT_ENUM_MAP) : FONT_ENUM_MAP[i][2].some }
UnmappedRows == { i \in 1..Len(FONT_ENUM_MAP) : ~FONT_ENUM_MAP[i][2].some }
RowFont(i) ==
    Font(FONT_ENUM_MAP[i][2].val[1], FONT_ENUM_MAP[i][2].val[2],
         FONT_ENUM_MAP[i][2].val[3])

\* C1: decoding the code of a variant, and parsing the name of a variant, give
\* that variant back, for all 9 FontWeight and both FontStyle variants.
C1_RoundTrip ==
    /\ Cardinality(FontWeight) = 9
    /\ Cardinality(FontStyle) = 2
    /\ \A w \in FontWeight :
        /\ (last.op = "FontWeight::from_u16" /\ last.arg = FontWeight_as_u16(w))
              => last.res = Some(w)
        /\ (last.op = "FontWeight::from_str" /\ last.arg = FontWeight_to_string(w))
              => last.res = Ok(w)
    /\ \A s \in FontStyle :
        /\ (last.op = "FontStyle::from_u8" /\ last.arg = FontStyle_as_u8(s))
              => last.res = Some(s)
        /\ (last.op = "FontStyle::from_str" /\ last.arg = FontStyle_to_string(s))
              => last.res = Ok(s)

\* the name of SemiBold has been parsed back
C1_Witness ==
    /\ last.op = "FontWeight::from_str"
    /\ last.arg = FontWeight_to_string("FontWeight::SemiBold")
    /\ last.res = Ok("FontWeight::SemiBold")

\* C2: from_u16 succeeds exactly on 100, 200, .., 900 and from_u8 exactly on 0
\* and 1; a success is the one variant with that code, distinct variants have
\* distinct codes, and every other code gives None.
C2_DecodersAcceptCanonicalCodes ==
    /\ \A w1, w2 \in FontWeight :
          FontWeight_as_u16(w1) = FontWeight_as_u16(w2) => w1 = w2
    /\ \A s1, s2 \in FontStyle :
          FontStyle_as_u8(s1) = FontStyle_as_u8(s2) => s1 = s2
    /\ last.op = "FontWeight::as_u16" => last.res \in WeightCodes
    /\ last.op = "FontStyle::as_u8" => last.res \in StyleCodes
    /\ last.op = "FontWeight::from_u16" =>
          /\ last.res.some <=> last.arg \in WeightCodes
          /\ last.res.some => /\ last.res.val \in FontWeight
                              /\ FontWeight_as_u16(last.res.val) = last.arg
          /\ ~last.res.some => last.res = None
    /\ last.op = "FontStyle::from_u8" =>
          /\ last.res.some <=> last.arg \in StyleCodes
          /\ last.res.some => /\ last.res.val \in FontStyle
                              /\ FontStyle_as_u8(last.res.val) = last.arg
          /\ ~last.res.some => last.res = None

\* style code 2 has been refused
C2_Witness ==
    /\ last.op = "FontStyle::from_u8"
    /\ last.arg = 2
    /\ last.res = None

\* C3: from_enum called with the name of a mapped entry returns the Font made
\* of that entry's family, weight and style.
C3_CatalogCompleteness ==
    last.op = "Font::from_enum" =>
        \A i \in MappedRows :
            FONT_ENUM_MAP[i][1] = last.arg.name => last.res = Some(RowFont(i))

\* "SourceSansItalic" has been resolved to its row
C3_Witness ==
    /\ last.op = "Font::from_enum"
    /\ last.arg.name = "SourceSansItalic"
    /\ last.res = Some(Font("rbxasset://fonts/families/SourceSansPro.json",
                            "FontWeight::Regular", "FontStyle::Italic"))

\* C4: from_enum returns None exactly when no entry has the requested name and
\* a mapping; "Unknown", "NotAFont" and "arial" give None, and "Unknown" is
\* the only entry without a mapping.
C4_CatalogNotFound ==
    /\ { FONT_ENUM_MAP[i][1] : i \in UnmappedRows } = { "Unknown" }
    /\ Cardinality(UnmappedRows) = 1
    /\ last.op = "Font::from_enum" =>
          /\ last.res = None <=>
                ~ \E i \in MappedRows : FONT_ENUM_MAP[i][1] = last.arg.name
          /\ last.arg.name \in { "Unknown", "NotAFont", "arial" } => last.res = None

\* "Unknown" has been looked up and not found
C4_Witness ==
    /\ last.op = "Font::from_enum"
    /\ last.arg.name = "Unknown"
    /\ last.res = None

\* C5: no two entries of the FONT_ENUM_MAP that from_enum scans carry the same
\* name.
C5_NamesUnique ==
    last.op = "Font::from_enum" =>
        \A i, j \in 1..Len(FONT_ENUM_MAP) :
            FONT_ENUM_MAP[i][1] = FONT_ENUM_MAP[j][1] => i = j

\* the name of the last mapped row has been resolved, and one row carries it
C5_Witness ==
    /\ last.op = "Font::from_enum"
    /\ last.arg.name = "Ubuntu"
    /\ last.res.some
    /\ Cardinality({ i \in 1..Len(FONT_ENUM_MAP) :
                        FONT_ENUM_MAP[i][1] = last.arg.name }) = 1

\* C6 as stated: the catalog that from_enum scans has 45 mapped rows and the
\* one unmapped "Unknown".
C6_FortyFiveRows ==
    last.op = "Font::from_enum" =>
        /\ Cardinality(MappedRows) = 45
        /\ { FONT_ENUM_MAP[i][1] : i \in UnmappedRows } = { "Unknown" }
        /\ Cardinality(UnmappedRows) = 1

\* C6: the catalog that from_enum scans has 46 mapped rows and the one
\* unmapped "Unknown" entry, 47 entries in all.
C6_FortySixRows ==
    last.op = "Font::from_enum" =>
        /\ Cardinality(MappedRows) = 46
        /\ { FONT_ENUM_MAP[i][1] : i \in UnmappedRows } = { "Unknown" }
        /\ Cardinality(UnmappedRows) = 1
        /\ Len(FONT_ENUM_MAP) = 47

\* the 46th row has been resolved, so it is a mapped row
C6_Witness ==
    /\ last.op = "Font::from_enum"
    /\ Len(FONT_ENUM_MAP) >= 46
    /\ last.arg.name = FONT_ENUM_MAP[46][1]
    /\ last.res.some

\* C7: the Bold getter returns TRUE exactly for SemiBold, Bold, ExtraBold and
\* Heavy, whatever setters ran before; setting Bold to TRUE leaves the weight
\* Bold, setting it to FALSE leaves it Regular, whatever the weight was, so
\* Bold then reads as the value just set.
C7_BoldDerivation ==
    /\ Font_get_Bold(font) <=>
          font.weight \in { "FontWeight::SemiBold", "FontWeight::Bold",
                            "FontWeight::ExtraBold", "FontWeight::Heavy" }
    /\ last.op = "get Bold" =>
          /\ font = last.this
          /\ last.res <=>
                font.weight \in { "FontWeight::SemiBold", "FontWeight::Bold",
                                  "FontWeight::ExtraBold", "FontWeight::Heavy" }
    /\ last.op = "set Bold" =>
          /\ last.res.ok
          /\ font.weight = IF last.arg THEN "FontWeight::Bold"
                                       ELSE "FontWeight::Regular"
          /\ Font_get_Bold(font) = last.arg

\* Bold has been set to FALSE on a Heavy font, which is Regular now
C7_Witness ==
    /\ last.op = "set Bold"
    /\ last.arg = FALSE
    /\ last.this.weight = "FontWeight::Heavy"
    /\ font.weight = "FontWeight::Regular"

\* C8: RbxFont::from(font) keeps the family, carries the weight and the style
\* as their codes and has no cached_face_id, and converting it back gives the
\* Font it was made from.
C8_ConversionFidelity ==
    last.op = "RbxFont::from" =>
        /\ ~last.res.panic
        /\ last.arg = font
        /\ last.res.val =
              RbxFont(font.family, RbxFontWeight(FontWeight_as_u16(font.weight)),
                      RbxFontStyle(FontStyle_as_u8(font.style)), None)
        /\ Font_from_RbxFont(last.res.val) = Returned(font)

\* the Font {"Test", ExtraBold, Italic} has been converted
C8_Witness ==
    /\ last.op = "RbxFont::from"
    /\ font = Font("Test", "FontWeight::ExtraBold", "FontStyle::Italic")
    /\ ~last.res.panic
    /\ last.res.val.weight = RbxFontWeight(800)
    /\ last.res.val.style = RbxFontStyle(1)

\* C9: the Weight setter succeeds only for an item of FontWeight with a
\* canonical weight name and the Style setter only for an item of FontStyle
\* with a canonical style name; an item of another enum fails with an error
\* that names that enum; a failed setter leaves the Font as it was.
C9_SetterRejection ==
    /\ last.op = "set Weight" =>
          /\ last.res.ok <=>
                (last.arg.parent = "FontWeight" /\ last.arg.name \in WeightNames)
          /\ last.arg.parent # "FontWeight" =>
                /\ ~last.res.ok
                /\ last.res.err.got = last.arg.parent
          /\ ~last.res.ok => font = last.this
    /\ last.op = "set Style" =>
          /\ last.res.ok <=>
                (last.arg.parent = "FontStyle" /\ last.arg.name \in StyleNames)
          /\ last.arg.parent # "FontStyle" =>
                /\ ~last.res.ok
                /\ last.res.err.got = last.arg.parent
          /\ ~last.res.ok => font = last.this

\* Weight has been set to the FontStyle item named "Bold", and was refused
C9_Witness ==
    /\ last.op = "set Weight"
    /\ last.arg = EnumItem("FontStyle", "Bold")
    /\ ~last.res.ok
    /\ last.res.err.got = "FontStyle"
    /\ font = last.this

\* C10: Font::from(RbxFont) panics and yields no Font when the weight code is
\* not one of 100, .., 900 or the style code is not 0 or 1; otherwise it
\* yields the Font with that family and the variants that have those codes.
C10_NoSilentLoss ==
    last.op = "Font::from" =>
        LET valid == /\ RbxFontWeight_as_u16(last.arg.weight) \in WeightCodes
                     /\ RbxFontStyle_as_u8(last.arg.style) \in StyleCodes
        IN  /\ ~valid => /\ last.res.panic
                         /\ "val" \notin DOMAIN last.res
            /\ valid => /\ ~last.res.panic
                        /\ last.res.val.family = last.arg.family
                        /\ last.res.val.weight \in FontWeight
                        /\ FontWeight_as_u16(last.res.val.weight)
                              = RbxFontWeight_as_u16(last.arg.weight)
                        /\ last.res.val.style \in FontStyle
                        /\ FontStyle_as_u8(last.res.val.style)
                              = RbxFontStyle_as_u8(last.arg.style)
                        /\ font = last.res.val

\* an RbxFont with weight code 150 has been converted, and the call panicked
C10_Witness ==
    /\ last.op = "Font::from"
    /\ RbxFontWeight_as_u16(last.arg.weight) = 150
    /\ last.res.panic

\* C11: a successful Weight setter changes the weight only, a successful Style
\* setter the style only, the Bold setter the weight only; so the family is
\* always the one the Font was constructed with, and the style is the one of
\* the last successful Style set, or the constructed one.
C11_SetterFrame ==
    /\ (last.op = "set Weight" /\ last.res.ok) =>
          /\ font.family = last.this.family
          /\ font.style = last.this.style
    /\ (last.op = "set Style" /\ last.res.ok) =>
          /\ font.family = last.this.family
          /\ font.weight = last.this.weight
    /\ last.op = "set Bold" =>
          /\ font.family = last.this.family
          /\ font.style = last.this.style
    /\ font.family = family0
    /\ font.style = style0

\* Bold has been set on a Font made from "Legacy" (Regular, Normal) whose
\* style had been set to Italic and whose weight was not Regular any more
C11_Witness ==
    /\ last.op = "set Bold"
    /\ last.arg = FALSE
    /\ last.this.weight = "FontWeight::Thin"
    /\ family0 = "rbxasset://fonts/families/LegacyArial.json"
    /\ style0 = "FontStyle::Italic"
    /\ font = Font("rbxasset://fonts/families/LegacyArial.json",
                   "FontWeight::Regular", "FontStyle::Italic")

=============================================================================
